---- MODULE Spec2Model ----
(***************************************************************************)
(* Model of crawler/crawler.py: the USCIS page-change crawler.             *)
(*                                                                         *)
(* One run of main() is a sequence of steps over the three configured      *)
(* sources: fetch + digest compare, diff generation, summary, snapshot     *)
(* saving, in-memory bookkeeping, and after the loop the persisting of     *)
(* index.json / changes_log.json and the rewrite of docs/index.html.       *)
(* The files on disk survive from one run to the next; the in-memory       *)
(* hash_index and change_log are reloaded at the start of every run.       *)
(*                                                                         *)
(* Text is modelled by strings, a page by one of the strings of Pages,     *)
(* a point in time by an integer number of seconds.  utc_now() reads the   *)
(* variable now; every run starts one second after the previous one and    *)
(* the calls utc_now() of one run read the same second.                    *)
(***************************************************************************)
EXTENDS Integers, Sequences, FiniteSets, TLC

(***************************************************************************)
(* Bounds of the model.                                                    *)
(***************************************************************************)
\* number of runs of main() explored after the initial on-disk state
MaxRuns == 2

(***************************************************************************)
(* Configuration (crawler.py, lines 35-47).                                *)
(***************************************************************************)
\* SOURCES, in dict (insertion) order
SOURCES == <<"news", "alerts", "policy">>

Names == {SOURCES[k] : k \in 1..Len(SOURCES)}

\* change_log[:200], the retention cap of the persisted log
LOG_CAP == 200

\* entries[:50], the number of records the landing page lists
HOME_CAP == 50

(***************************************************************************)
(* Input domains: what a fetch can return, what the summary service can    *)
(* answer.                                                                 *)
(***************************************************************************)
Pages == {"a", "a\nb"}

Replies == {"- fee < $10"}

(***************************************************************************)
(* Generic sequence helpers (Python slicing and list operations).          *)
(***************************************************************************)
Min(a, b) == IF a <= b THEN a ELSE b

\* xs[:n]
Take(xs, n) == SubSeq(xs, 1, Min(n, Len(xs)))

\* dict.get / dict[key] = value on a dict modelled as a function
Has(d, k) == k \in DOMAIN d

Put(d, k, v) == [x \in DOMAIN d \cup {k} |-> IF x = k THEN v ELSE d[x]]

EmptyDict == [x \in {} |-> 0]

(***************************************************************************)
(* Helpers of crawler.py.                                                  *)
(***************************************************************************)
\* sha256(text): a collision-free digest of the text
sha256(text) == <<"sha256", text>>

\* str.splitlines() on the texts of the model
splitlines(text) ==
    CASE text = ""     -> <<>>
      [] text = "a"    -> <<"a">>
      [] text = "a\nb" -> <<"a", "b">>

\* The rows of difflib.HtmlDiff().make_file(old, new): the lines both sides
\* share are "equal", the lines only old has are "delete", the lines only
\* new has are "insert".
RECURSIVE DiffRows(_, _)
DiffRows(old, new) ==
    IF old = <<>> THEN [k \in 1..Len(new) |-> <<"insert", new[k]>>]
    ELSE IF new = <<>> THEN [k \in 1..Len(old) |-> <<"delete", old[k]>>]
    ELSE IF Head(old) = Head(new)
         THEN <<(<<"equal", Head(new)>>)>> \o DiffRows(Tail(old), Tail(new))
         ELSE <<(<<"delete", Head(old)>>)>> \o DiffRows(Tail(old), new)

\* diff_html(old, new)
diff_html(old, new) ==
    [fromdesc |-> "previous", todesc |-> "current",
     rows |-> DiffRows(splitlines(old), splitlines(new))]

\* The two fallback strings of summarize()
NO_KEY_TEXT == "OpenAI API key not configured."

UNAVAILABLE_TEXT == "Summary unavailable."

\* summarize(diff): key is openai.api_key being set; reply is what
\* ChatCompletion.create answers, "" standing for any exception it raises.
\* The result is always a string: no path of summarize raises.
summarize(key, reply) ==
    IF ~key THEN NO_KEY_TEXT
    ELSE IF reply = "" THEN UNAVAILABLE_TEXT
    ELSE reply

\* html.escape on the strings of the model
html_escape(s) == IF s = "- fee < $10" THEN "- fee &lt; $10" ELSE s

\* utc_now().date().isoformat() and e["ts"][:10]: the day of a second
DateStamp(t) == t \div 86400

\* f"{name}-{ts_str}.html"
DiffName(name, t) == <<name, t>>

\* f"{name} page updated"
Title(name) == name \o " page updated"

\* the dict inserted into change_log
Record(name, t, path, text) ==
    [ts |-> t, title |-> Title(name), path |-> path, summary |-> text]

\* a comparison that never finds the digest equal
UnchangedNever(index, name, digest) == FALSE

\* hash_index.get(name) == digest
Unchanged(index, name, digest) == Has(index, name) /\ index[name] = digest

\* last_snap.read_text() if last_snap.exists() else ""
OldHtml(snap, name) == IF Has(snap, name) THEN snap[name] ELSE ""

\* change_log.append(record)
InsertOldest(log, rec) == Append(log, rec)

\* change_log.insert(0, record)
InsertNewest(log, rec) == <<rec>> \o log

\* change_log[:200]
Truncate(log) == Take(log, LOG_CAP)

\* the rows of entries[1:51], a slice one off
HomeRowsShifted(entries) ==
    [k \in 1..Min(HOME_CAP, Len(entries) - 1) |->
        [date    |-> DateStamp(entries[k + 1].ts),
         href    |-> entries[k + 1].path,
         title   |-> html_escape(entries[k + 1].title),
         summary |-> html_escape(entries[k + 1].summary)]]

\* the <li> rows write_home builds from entries[:50]
HomeRows(entries) ==
    [k \in 1..Min(HOME_CAP, Len(entries)) |->
        [date    |-> DateStamp(entries[k].ts),
         href    |-> entries[k].path,
         title   |-> html_escape(entries[k].title),
         summary |-> html_escape(entries[k].summary)]]

(***************************************************************************)
(* State.                                                                  *)
(***************************************************************************)
VARIABLES
    \* the environment of the deployment
    OPENAI_API_KEY, \* the secret is configured
    \* the files on disk
    index_file,     \* index.json: source name -> digest
    log_file,       \* changes_log.json: records, newest first
    latest,         \* snapshots/{name}/latest.html: name -> text
    dated,          \* snapshots/{name}/{date}.html: <<name, day>> -> text
    diffs,          \* docs/changes/{name}-{ts}.html: path -> diff
    home,           \* docs/index.html
    \* the running process
    pc,             \* position in main(); "idle", "done", "aborted": no process
    i,              \* position of the for loop in SOURCES
    hash_index,     \* the dict loaded from index.json
    change_log,     \* the list loaded from changes_log.json
    api_key,        \* openai.api_key is set
    html_cur, diff_text, diff_file, summary,
    now,            \* the clock utc_now() reads
    runs,           \* number of runs started
    \* history of the current run, for stating the properties
    pre,            \* index.json, changes_log.json, docs/index.html at its start
    fetched,        \* name -> text fetched in this run
    reply,          \* name -> what the summary service answered ("" = raised)
    trace,          \* name -> the steps taken for the source, in order
    runWrites,      \* the files written in this run, as <<kind, name>>
    runDetected,    \* the records inserted in this run, in order of detection
    prevDone,       \* the previous run completed
    prevFetched     \* what the previous run fetched

disk == <<index_file, log_file, latest, dated, diffs, home>>

proc == <<pc, i, hash_index, change_log, api_key, html_cur, diff_text,
          diff_file, summary, now, runs>>

hist == <<pre, fetched, reply, trace, runWrites, runDetected, prevDone,
          prevFetched>>

vars == <<OPENAI_API_KEY, disk, proc, hist>>

cur == SOURCES[i]

NoDiff == diff_html("", "")

NoPath == DiffName("", 0)

(***************************************************************************)
(* The on-disk state the first modelled run starts from: what n earlier    *)
(* completed runs of main() leave behind.  Run 1 of the n found an empty   *)
(* disk, so all three sources were new to it; in each later run only the   *)
(* page "news" had changed, alternating between the two pages.  The runs   *)
(* were one second apart, the last one at second -1, in the same           *)
(* environment as the modelled runs; where the API key is set, the summary *)
(* service failed each time.  n = 0 is the empty disk.                     *)
(***************************************************************************)
HistoryRuns == {0, 47, 198}

HistPage(k) == IF k % 2 = 1 THEN "a" ELSE "a\nb"

HistTime(n, k) == k - n - 1

\* the records of the n runs in order of detection
HistDetections(n, key) ==
    [k \in 1..(IF n = 0 THEN 0 ELSE n + 2) |->
        LET name == IF k <= 3 THEN SOURCES[k] ELSE "news"
            t    == IF k <= 3 THEN HistTime(n, 1) ELSE HistTime(n, k - 2)
        IN  Record(name, t, DiffName(name, t), summarize(key, ""))]

HistLog(n, key) ==
    LET d == HistDetections(n, key) IN [j \in 1..Len(d) |-> d[Len(d) + 1 - j]]

HistLatest(n) ==
    IF n = 0 THEN EmptyDict
    ELSE [s \in Names |-> IF s = "news" THEN HistPage(n) ELSE "a"]

HistIndex(n) ==
    LET l == HistLatest(n) IN [s \in DOMAIN l |-> sha256(l[s])]

HistDated(n) ==
    LET newsDays == {DateStamp(HistTime(n, k)) : k \in 1..n}
        lastOn(d) == CHOOSE k \in 1..n :
                        /\ DateStamp(HistTime(n, k)) = d
                        /\ \A m \in 1..n :
                              DateStamp(HistTime(n, m)) = d => m <= k
        keys == {<<"news", d>> : d \in newsDays}
                \cup (IF n = 0 THEN {}
                      ELSE {<<s, DateStamp(HistTime(n, 1))>> :
                               s \in {"alerts", "policy"}})
    IN  [key \in keys |->
            IF key[1] = "news" THEN HistPage(lastOn(key[2])) ELSE "a"]

HistDiffs(n) ==
    LET d == HistDetections(n, FALSE)
        paths == {d[k].path : k \in 1..Len(d)}
        run(path) == path[2] + n + 1
    IN  [path \in paths |->
            IF path[1] = "news" /\ run(path) > 1
            THEN diff_html(HistPage(run(path) - 1), HistPage(run(path)))
            ELSE diff_html("", "a")]

HistHome(n, key) ==
    IF n = 0 THEN [exists |-> FALSE, rows |-> <<>>]
    ELSE [exists |-> TRUE, rows |-> HomeRows(HistLog(n, key))]

Init ==
    /\ OPENAI_API_KEY \in BOOLEAN
    /\ \E n \in HistoryRuns :
          /\ index_file = HistIndex(n)
          /\ log_file = HistLog(n, OPENAI_API_KEY)
          /\ latest = HistLatest(n)
          /\ dated = HistDated(n)
          /\ diffs = HistDiffs(n)
          /\ home = HistHome(n, OPENAI_API_KEY)
          /\ pre = [index |-> HistIndex(n),
                    log |-> HistLog(n, OPENAI_API_KEY),
                    home |-> HistHome(n, OPENAI_API_KEY)]
    /\ pc = "idle"
    /\ i = 1
    /\ hash_index = EmptyDict
    /\ change_log = <<>>
    /\ api_key = FALSE
    /\ html_cur = ""
    /\ diff_text = NoDiff
    /\ diff_file = NoPath
    /\ summary = ""
    /\ now = -1
    /\ runs = 0
    /\ fetched = EmptyDict
    /\ reply = EmptyDict
    /\ trace = [s \in Names |-> <<>>]
    /\ runWrites = {}
    /\ runDetected = <<>>
    /\ prevDone = FALSE
    /\ prevFetched = EmptyDict

(***************************************************************************)
(* The steps of main().                                                    *)
(***************************************************************************)
Step(s, events) == trace' = [trace EXCEPT ![s] = @ \o events]

\* the end of one iteration of the for loop
NextSource ==
    /\ pc' = IF i = Len(SOURCES) THEN "persist" ELSE "fetch"
    /\ i' = IF i = Len(SOURCES) THEN i ELSE i + 1

\* A new process: module import reads OPENAI_API_KEY, main() loads
\* index.json and changes_log.json (empty when the file does not exist).
StartRun ==
    /\ pc \in {"idle", "done", "aborted"}
    /\ runs < MaxRuns
    /\ runs' = runs + 1
    /\ now' = now + 1
    /\ api_key' = OPENAI_API_KEY
    /\ hash_index' = index_file
    /\ change_log' = log_file
    /\ pc' = "fetch"
    /\ i' = 1
    /\ html_cur' = ""
    /\ diff_text' = NoDiff
    /\ diff_file' = NoPath
    /\ summary' = ""
    /\ pre' = [index |-> index_file, log |-> log_file, home |-> home]
    /\ prevDone' = (pc = "done")
    /\ prevFetched' = IF pc = "done" THEN fetched ELSE EmptyDict
    /\ fetched' = EmptyDict
    /\ reply' = EmptyDict
    /\ trace' = [s \in Names |-> <<>>]
    /\ runWrites' = {}
    /\ runDetected' = <<>>
    /\ UNCHANGED <<OPENAI_API_KEY, disk>>

\* html_cur = fetch(url); digest = sha256(html_cur);
\* if hash_index.get(name) == digest: continue
Fetch ==
    /\ pc = "fetch"
    /\ \E page \in Pages :
          /\ html_cur' = page
          /\ fetched' = Put(fetched, cur, page)
          /\ IF Unchanged(hash_index, cur, sha256(page))
             THEN /\ Step(cur, <<"FETCHED", "UNCHANGED">>)
                  /\ NextSource
             ELSE /\ Step(cur, <<"FETCHED", "CHANGED">>)
                  /\ pc' = "diff"
                  /\ i' = i
    /\ UNCHANGED <<OPENAI_API_KEY, disk, hash_index, change_log, api_key,
                   diff_text, diff_file, summary, now, runs, pre, reply,
                   runWrites, runDetected, prevDone, prevFetched>>

\* requests.get or raise_for_status raises: nothing catches it, the
\* process ends
FetchFail ==
    /\ pc = "fetch"
    /\ pc' = "aborted"
    /\ Step(cur, <<"FETCH_FAILED">>)
    /\ UNCHANGED <<OPENAI_API_KEY, disk, i, hash_index, change_log, api_key,
                   html_cur, diff_text, diff_file, summary, now, runs, pre,
                   fetched, reply, runWrites, runDetected, prevDone,
                   prevFetched>>

\* the diff is built and named but the file is never written
GenerateDiffUnwritten ==
    /\ pc = "diff"
    /\ diff_text' = diff_html(OldHtml(latest, cur), html_cur)
    /\ diff_file' = DiffName(cur, now)
    /\ Step(cur, <<"DIFF_WRITTEN">>)
    /\ pc' = "summarize"
    /\ UNCHANGED <<OPENAI_API_KEY, disk, i, hash_index, change_log, api_key,
                   html_cur, summary, now, runs, pre, fetched, reply,
                   runWrites, runDetected, prevDone, prevFetched>>

\* "generate diff": read latest.html, build the diff, write the diff file
GenerateDiff ==
    /\ pc = "diff"
    /\ LET text == diff_html(OldHtml(latest, cur), html_cur)
           path == DiffName(cur, now)
       IN  /\ diff_text' = text
           /\ diff_file' = path
           /\ diffs' = Put(diffs, path, text)
    /\ runWrites' = runWrites \cup {<<"diff", cur>>}
    /\ Step(cur, <<"DIFF_WRITTEN">>)
    /\ pc' = "summarize"
    /\ UNCHANGED <<OPENAI_API_KEY, index_file, log_file, latest, dated,
                   home, i, hash_index, change_log, api_key, html_cur,
                   summary, now, runs, pre, fetched, reply, runDetected,
                   prevDone, prevFetched>>

\* a summarize() whose except clause is missing: a failing call ends the
\* process
SummarizeRaises ==
    /\ pc = "summarize"
    /\ \E r \in (IF api_key THEN Replies \cup {""} ELSE {""}) :
          /\ reply' = Put(reply, cur, r)
          /\ IF api_key /\ r = ""
             THEN /\ pc' = "aborted"
                  /\ summary' = summary
                  /\ trace' = trace
             ELSE /\ pc' = "snapshot"
                  /\ summary' = summarize(api_key, r)
                  /\ Step(cur, <<"SUMMARIZED">>)
    /\ UNCHANGED <<OPENAI_API_KEY, disk, i, hash_index, change_log, api_key,
                   html_cur, diff_text, diff_file, now, runs, pre, fetched,
                   runWrites, runDetected, prevDone, prevFetched>>

\* "GPT summary": summary = summarize(diff_text)
Summarize ==
    /\ pc = "summarize"
    /\ \E r \in (IF api_key THEN Replies \cup {""} ELSE {""}) :
          /\ summary' = summarize(api_key, r)
          /\ reply' = Put(reply, cur, r)
    /\ Step(cur, <<"SUMMARIZED">>)
    /\ pc' = "snapshot"
    /\ UNCHANGED <<OPENAI_API_KEY, disk, i, hash_index, change_log, api_key,
                   html_cur, diff_text, diff_file, now, runs, pre, fetched,
                   runWrites, runDetected, prevDone, prevFetched>>

\* the snapshot step is skipped
SaveSnapshotSkipped ==
    /\ pc = "snapshot"
    /\ pc' = "bookkeep"
    /\ UNCHANGED <<OPENAI_API_KEY, disk, i, hash_index, change_log, api_key,
                   html_cur, diff_text, diff_file, summary, now, runs, pre,
                   fetched, reply, trace, runWrites, runDetected, prevDone,
                   prevFetched>>

\* "save snapshot": the dated file, then latest.html
SaveSnapshot ==
    /\ pc = "snapshot"
    /\ dated' = Put(dated, <<cur, DateStamp(now)>>, html_cur)
    /\ latest' = Put(latest, cur, html_cur)
    /\ runWrites' = runWrites \cup {<<"dated", cur>>, <<"latest", cur>>}
    /\ Step(cur, <<"DATED_WRITTEN", "LATEST_WRITTEN">>)
    /\ pc' = "bookkeep"
    /\ UNCHANGED <<OPENAI_API_KEY, index_file, log_file, diffs, home, i,
                   hash_index, change_log, api_key, html_cur, diff_text,
                   diff_file, summary, now, runs, pre, fetched, reply,
                   runDetected, prevDone, prevFetched>>

\* bookkeeping that saves index.json and changes_log.json at once
BookkeepWriteThrough ==
    /\ pc = "bookkeep"
    /\ hash_index' = Put(hash_index, cur, sha256(html_cur))
    /\ LET rec == Record(cur, now, diff_file, summary)
       IN  /\ change_log' = InsertNewest(change_log, rec)
           /\ runDetected' = Append(runDetected, rec)
    /\ index_file' = hash_index'
    /\ log_file' = Truncate(change_log')
    /\ Step(cur, <<"LOGGED">>)
    /\ NextSource
    /\ UNCHANGED <<OPENAI_API_KEY, latest, dated, diffs, home, api_key,
                   html_cur, diff_text, diff_file, summary, now, runs, pre,
                   fetched, reply, runWrites, prevDone, prevFetched>>

\* "update bookkeeping": hash_index[name] = digest; change_log.insert(0, ..)
Bookkeep ==
    /\ pc = "bookkeep"
    /\ hash_index' = Put(hash_index, cur, sha256(html_cur))
    /\ LET rec == Record(cur, now, diff_file, summary)
       IN  /\ change_log' = InsertNewest(change_log, rec)
           /\ runDetected' = Append(runDetected, rec)
    /\ Step(cur, <<"LOGGED">>)
    /\ NextSource
    /\ UNCHANGED <<OPENAI_API_KEY, disk, api_key, html_cur, diff_text,
                   diff_file, summary, now, runs, pre, fetched, reply,
                   runWrites, prevDone, prevFetched>>

\* only changes_log.json is written, index.json is forgotten
PersistLogOnly ==
    /\ pc = "persist"
    /\ log_file' = Truncate(change_log)
    /\ runWrites' = runWrites \cup {<<"log", "">>}
    /\ pc' = "home"
    /\ UNCHANGED <<OPENAI_API_KEY, index_file, latest, dated, diffs, home, i,
                   hash_index, change_log, api_key, html_cur, diff_text,
                   diff_file, summary, now, runs, pre, fetched, reply, trace,
                   runDetected, prevDone, prevFetched>>

\* "persist indices": write index.json and changes_log.json
Persist ==
    /\ pc = "persist"
    /\ index_file' = hash_index
    /\ log_file' = Truncate(change_log)
    /\ runWrites' = runWrites \cup {<<"index", "">>, <<"log", "">>}
    /\ pc' = "home"
    /\ UNCHANGED <<OPENAI_API_KEY, latest, dated, diffs, home, i,
                   hash_index, change_log, api_key, html_cur, diff_text,
                   diff_file, summary, now, runs, pre, fetched, reply,
                   trace, runDetected, prevDone, prevFetched>>

\* "rewrite homepage": write_home(change_log)
WriteHome ==
    /\ pc = "home"
    /\ home' = [exists |-> TRUE, rows |-> HomeRows(change_log)]
    /\ runWrites' = runWrites \cup {<<"home", "">>}
    /\ pc' = "done"
    /\ UNCHANGED <<OPENAI_API_KEY, index_file, log_file, latest, dated,
                   diffs, i, hash_index, change_log, api_key, html_cur,
                   diff_text, diff_file, summary, now, runs, pre, fetched,
                   reply, trace, runDetected, prevDone, prevFetched>>

Next ==
    \/ StartRun
    \/ Fetch
    \/ FetchFail
    \/ GenerateDiff
    \/ Summarize
    \/ SaveSnapshot
    \/ Bookkeep
    \/ Persist
    \/ WriteHome

Spec == Init /\ [][Next]_vars

(***************************************************************************)
(* Vocabulary of the properties.                                           *)
(***************************************************************************)
Reverse(xs) == [k \in 1..Len(xs) |-> xs[Len(xs) + 1 - k]]

IsPrefix(xs, ys) == Len(xs) <= Len(ys) /\ xs = SubSeq(ys, 1, Len(xs))

\* position of event e in the steps t, 0 when it did not happen
Pos(t, e) == IF \E k \in 1..Len(t) : t[k] = e
             THEN CHOOSE k \in 1..Len(t) : t[k] = e
             ELSE 0

Artifacts == {"diff", "dated", "latest"}

\* the artifacts written for source s in this run
Written(s) == {k \in Artifacts : <<k, s>> \in runWrites}

\* the records inserted for source s in this run
Inserted(s) ==
    {k \in 1..Len(runDetected) : runDetected[k].title = Title(s)}

\* the fetched text of s has the digest index.json held at the start
SameDigest(s) ==
    /\ Has(fetched, s)
    /\ Has(pre.index, s)
    /\ pre.index[s] = sha256(fetched[s])

\* no process is running
Resting == pc \in {"idle", "done", "aborted"}

\* the log the run's detections produce from the log it loaded
ExpectedLog == Reverse(runDetected) \o pre.log

(***************************************************************************)
(* C1.  Idempotence: when two runs complete in succession and every source *)
(* returned the same text in both, the second run leaves index.json and    *)
(* changes_log.json as the first run left them, writes no snapshot and no  *)
(* diff, and the landing page has the same content after both.             *)
(***************************************************************************)
C1_Idempotence ==
    (pc = "done" /\ prevDone /\ fetched = prevFetched) =>
        /\ index_file = pre.index
        /\ log_file = pre.log
        /\ home = pre.home
        /\ \A s \in Names : Written(s) = {}

C1_Witness ==
    /\ pc = "done" /\ prevDone /\ fetched = prevFetched
    /\ Len(log_file) = LOG_CAP
    /\ <<"home", "">> \in runWrites

(***************************************************************************)
(* C2.  Log ordering and cap: the persisted log never holds more than 200  *)
(* records; every inserted record goes to index 0, so the in-memory log is *)
(* the run's detections, newest first, followed by the log as loaded; a    *)
(* completed run persists exactly the first 200 of these, so the oldest    *)
(* records are the ones dropped, and the timestamps never increase along   *)
(* the log.  With 200 records loaded and one change detected the result    *)
(* has 200 records, the new one first, the oldest loaded one gone.         *)
(***************************************************************************)
C2_LogOrderAndCap ==
    /\ Len(log_file) <= LOG_CAP
    /\ \A k \in 1..(Len(log_file) - 1) : log_file[k].ts >= log_file[k + 1].ts
    /\ pc # "idle" => change_log = ExpectedLog
    /\ pc \in {"home", "done"} => log_file = Take(ExpectedLog, LOG_CAP)
    /\ pc \in {"fetch", "diff", "summarize", "snapshot", "bookkeep",
               "persist", "aborted"} => log_file = pre.log
    /\ (pc = "done" /\ Len(pre.log) = LOG_CAP /\ Len(runDetected) = 1) =>
          /\ Len(log_file) = LOG_CAP
          /\ log_file[1] = runDetected[1]
          /\ \A k \in 2..LOG_CAP : log_file[k] = pre.log[k - 1]
          /\ \A k \in 1..LOG_CAP : log_file[k] # pre.log[LOG_CAP]

C2_Witness ==
    /\ pc = "done"
    /\ Len(pre.log) = LOG_CAP
    /\ Len(runDetected) = 1
    /\ log_file[1] = runDetected[1]

(***************************************************************************)
(* C3.  An unchanged source has no side effects: when the text fetched for *)
(* a source has the digest index.json holds for it, the run writes no      *)
(* dated snapshot, no latest snapshot and no diff for that source, inserts *)
(* no record for it, and its index entry stays as it was, in memory and,   *)
(* once the run has persisted, on disk.                                    *)
(***************************************************************************)
C3_UnchangedNoSideEffects ==
    \A s \in Names :
        SameDigest(s) =>
            /\ Written(s) = {}
            /\ Inserted(s) = {}
            /\ Has(hash_index, s) /\ hash_index[s] = pre.index[s]
            /\ Has(index_file, s) /\ index_file[s] = pre.index[s]

C3_Witness ==
    /\ pc = "done"
    /\ SameDigest("alerts")
    /\ Written("news") = Artifacts
    /\ Written("policy") = Artifacts

(***************************************************************************)
(* C4.  First observation: whenever a run finds a changed source that is   *)
(* absent from index.json, no latest snapshot of it exists and the diff is *)
(* computed against empty prior content: every line of the fetched text is *)
(* an insertion.                                                           *)
(***************************************************************************)
C4_FirstObservation ==
    (pc = "summarize" /\ ~Has(pre.index, cur)) =>
        /\ ~Has(latest, cur)
        /\ diff_text = diff_html("", html_cur)
        /\ \A k \in 1..Len(diff_text.rows) : diff_text.rows[k][1] = "insert"

(***************************************************************************)
(* C5.  Clean abort on fetch failure: a run that a failing fetch ends      *)
(* leaves index.json and changes_log.json exactly as they were when the    *)
(* run started, whatever sources it had processed before.                  *)
(***************************************************************************)
C5_CleanAbort ==
    pc = "aborted" =>
        /\ index_file = pre.index
        /\ log_file = pre.log

C5_Witness ==
    /\ pc = "aborted"
    /\ cur = "policy"
    /\ Len(runDetected) = 2
    /\ hash_index # pre.index

(***************************************************************************)
(* C6.  Summarization never aborts the run: without the API key summarize  *)
(* returns its no-key text, on a failing call its unavailable text; only a *)
(* failing fetch ends a run early; without the key every record the run    *)
(* creates carries the no-key text, and the completed run has written the  *)
(* log, with these records first, and the landing page.                    *)
(***************************************************************************)
C6_SummaryBestEffort ==
    /\ pc \in {"snapshot", "bookkeep"} =>
          /\ ~api_key => summary = NO_KEY_TEXT
          /\ (api_key /\ reply[cur] = "") => summary = UNAVAILABLE_TEXT
    /\ pc = "aborted" => trace[cur] = <<"FETCH_FAILED">>
    /\ ~api_key =>
          \A k \in 1..Len(runDetected) : runDetected[k].summary = NO_KEY_TEXT
    /\ \A s \in DOMAIN reply :
          (api_key /\ reply[s] = "") =>
             \A k \in Inserted(s) : runDetected[k].summary = UNAVAILABLE_TEXT
    /\ pc = "done" =>
          /\ {<<"log", "">>, <<"home", "">>} \subseteq runWrites
          /\ IsPrefix(Reverse(runDetected), log_file)

C6_Witness ==
    /\ pc = "done"
    /\ ~api_key
    /\ Len(runDetected) = 3
    /\ \A k \in 1..3 : log_file[k].summary = NO_KEY_TEXT

(***************************************************************************)
(* C7.  The landing page is a projection of the log: whenever no run is in *)
(* progress the page lists exactly the first 50 records of                 *)
(* changes_log.json, in log order, each row built from its record alone;   *)
(* every completed run has rewritten the page, whether or not a source     *)
(* changed.                                                                *)
(***************************************************************************)
C7_HomeIsProjection ==
    /\ Resting =>
          /\ Len(home.rows) = Min(HOME_CAP, Len(log_file))
          /\ \A k \in 1..Len(home.rows) :
                /\ home.rows[k].href = log_file[k].path
                /\ home.rows[k].date = DateStamp(log_file[k].ts)
                /\ home.rows[k].title = html_escape(log_file[k].title)
                /\ home.rows[k].summary = html_escape(log_file[k].summary)
    /\ pc = "done" => home.exists /\ <<"home", "">> \in runWrites

C7_Witness ==
    /\ pc = "done"
    /\ Len(change_log) > LOG_CAP
    /\ Len(home.rows) = HOME_CAP
    /\ home.rows[1].href = runDetected[Len(runDetected)].path
    /\ home.rows[1].summary = "- fee &lt; $10"

(***************************************************************************)
(* C8.  Stage ordering.                                                    *)
(***************************************************************************)
ChangedPath ==
    <<"FETCHED", "CHANGED", "DIFF_WRITTEN", "SUMMARIZED", "DATED_WRITTEN",
      "LATEST_WRITTEN", "LOGGED">>

UnchangedPath == <<"FETCHED", "UNCHANGED">>

FailedPath == <<"FETCH_FAILED">>

\* C8 as claimed: for a changed source the dated snapshot, the latest
\* snapshot and the diff are all written before summarization, and the
\* record is inserted after it.
C8_ArchivedBeforeSummarized ==
    \A s \in Names :
        /\ Pos(trace[s], "SUMMARIZED") > 0 =>
              \A e \in {"DIFF_WRITTEN", "DATED_WRITTEN", "LATEST_WRITTEN"} :
                 /\ Pos(trace[s], e) > 0
                 /\ Pos(trace[s], e) < Pos(trace[s], "SUMMARIZED")
        /\ Pos(trace[s], "LOGGED") > 0 =>
              /\ Pos(trace[s], "SUMMARIZED") > 0
              /\ Pos(trace[s], "SUMMARIZED") < Pos(trace[s], "LOGGED")

\* C8 as amended: for a changed source the steps happen in the order diff
\* written, summarized, dated snapshot written, latest snapshot written,
\* record inserted and index entry set; an unchanged source stops after the
\* comparison; a failed fetch is the only step for its source.  The files
\* written and the records inserted are those the steps name.
C8_StageOrder ==
    \A s \in Names :
        /\ \/ IsPrefix(trace[s], ChangedPath)
           \/ IsPrefix(trace[s], UnchangedPath)
           \/ trace[s] = FailedPath
        /\ ("diff" \in Written(s)) = (Pos(trace[s], "DIFF_WRITTEN") > 0)
        /\ ("dated" \in Written(s)) = (Pos(trace[s], "DATED_WRITTEN") > 0)
        /\ ("latest" \in Written(s)) = (Pos(trace[s], "LATEST_WRITTEN") > 0)
        /\ (Inserted(s) # {}) = (Pos(trace[s], "LOGGED") > 0)
        /\ (Pos(trace[s], "LOGGED") > 0) =>
              Has(hash_index, s) /\ hash_index[s] = sha256(fetched[s])
        /\ (pc # "idle" /\ Pos(trace[s], "LOGGED") = 0) =>
              /\ Has(hash_index, s) = Has(pre.index, s)
              /\ Has(hash_index, s) => hash_index[s] = pre.index[s]

C8_Witness ==
    /\ pc = "aborted"
    /\ trace["news"] = ChangedPath
    /\ trace["alerts"] = UnchangedPath
    /\ trace["policy"] = FailedPath

(***************************************************************************)
(* C9.  No change is recorded without its artifacts: every record of       *)
(* changes_log.json names a diff file that exists, and every source in     *)
(* index.json has a latest snapshot and a dated snapshot on disk, after    *)
(* completed and after aborted runs alike.                                 *)
(***************************************************************************)
C9_ArtifactsExist ==
    /\ \A k \in 1..Len(log_file) : Has(diffs, log_file[k].path)
    /\ \A s \in DOMAIN index_file :
          /\ Has(latest, s)
          /\ \E key \in DOMAIN dated : key[1] = s

C9_Witness ==
    /\ pc = "aborted"
    /\ prevDone
    /\ Len(log_file) > LOG_CAP - 2
    /\ Has(diffs, DiffName("news", now))
    /\ ~\E k \in 1..Len(log_file) : log_file[k].path = DiffName("news", now)

(***************************************************************************)
(* C10.  Diff-baseline consistency: at the end of every completed run each *)
(* source in index.json has a latest snapshot whose digest is the indexed  *)
(* digest.                                                                 *)
(***************************************************************************)
C10_BaselineMatchesIndex ==
    pc = "done" =>
        \A s \in DOMAIN index_file :
            /\ Has(latest, s)
            /\ sha256(latest[s]) = index_file[s]

====
